---- MODULE Spec2Model ----
(***************************************************************************)
(* Verification model of the guideline matching and response supervision   *)
(* pipeline of guidelines-agent: the POST handler of /api/chat             *)
(* (src/src/app/api/chat/route.ts), the retrieval functions of             *)
(* supabase-setup.sql and the response stream the handler produces.        *)
(*                                                                         *)
(* Texts are sequences of characters, similarities are percentages         *)
(* (0.4 is 40), embeddings are points on a line whose   *)
(* distance gives the cosine distance of the two vectors.                  *)
(***************************************************************************)
EXTENDS Integers, Sequences, FiniteSets, TLC

\* ---------------------------------------------------------------- bounds
MaxTurns == 2
MaxChunks == 2
MaxResults == 2

\* ------------------------------------------------------ program constants
MatchThreshold == 40
MatchCount == 10

\* ------------------------------------------------------------ value sets
Null == -1
NoSession == 0
\* a session id that names no row; rows get the ids 1, 2, ... as they are inserted
UnknownSid == MaxTurns + 2
SessionIds == 1..UnknownSid
\* the guidelines of the table, and an id that is no guideline's
GuidelineIds == {1, 2}
UnknownGuideline == Cardinality(GuidelineIds) + 1
\* the embedding vectors
Embeddings == {0, 1, 2}
DraftTexts == {<<>>, <<"a", "b">>}
ChunkTexts == {<<>>, <<"a">>, <<"b">>}

\* priority column of the seeded guidelines, in id order
SeedPriority == <<0, 10, 0, 0, 5, 20>>

\* text -> vector of the embedding service; texts are numbered
Embed(text) == text % Cardinality(Embeddings)

Abs(x) == IF x < 0 THEN -x ELSE x
Min(a, b) == IF a < b THEN a ELSE b

\* g.embedding <=> query_embedding, the cosine distance, in percent
Distance(e, q) == 30 * Abs(e - q)
\* 1 - (g.embedding <=> query_embedding)
Similarity(e, q) == 100 - Distance(e, q)

VARIABLES
  guidelines,        \* table guidelines: id -> row
  sessions,          \* table conversation_sessions: id -> state (accomplished ids)
  turns,             \* requests received so far
  pc,                \* position of the POST handler
  reqSid,            \* body.sessionId (NoSession when absent)
  sessionId,         \* local sessionId
  query,             \* embeddingResponse.data[0].embedding
  rpcData,           \* data of supabase.rpc
  classifier,        \* shape of what the classifier call produced
  matchingResults,
  activeGuidelines,
  dynamicActions,
  draft,             \* initialResponseText
  correctionStream,
  pulled,            \* delta contents read from correctionStream, in order
  frames,            \* chunks enqueued on the response stream, in order
  streamState,       \* state of the ReadableStream
  response,          \* what POST returned: "none", "stream", "error500"
  failures,          \* history: the calls and stages of this turn that failed
  everActive,        \* history: session id -> ids active in a completed turn
  rpcArgs,           \* the SQL function called last and its arguments
  sessionsBefore,    \* history: conversation_sessions when the turn began
  writes,            \* history: the database writes of this turn, in order
  correctionPrompt,  \* instructions of the prompt of the supervising call
  stages,            \* history: the stages of this turn, in the order they ran
  admin,             \* the guideline requests in flight (PUT, regenerate-embeddings)
  client             \* the dashboard: its state and the reader loop of a turn

vars == <<guidelines, sessions, turns, pc, reqSid, sessionId, query, rpcData,
          classifier, matchingResults, activeGuidelines,
          dynamicActions, draft, correctionStream, pulled, frames, streamState,
          response, failures, everActive, rpcArgs, sessionsBefore, writes,
          correctionPrompt, stages, admin, client>>

turnVars == <<reqSid, sessionId, query, rpcData, classifier,
              matchingResults, activeGuidelines, dynamicActions, draft,
              correctionStream, pulled, frames, streamState, response,
              failures, rpcArgs, writes, correctionPrompt, stages>>

\* ------------------------------------------------------------- retrieval
Orderings(S) ==
  {s \in [1..Cardinality(S) -> S] : \A i, j \in 1..Cardinality(S) : i # j => s[i] # s[j]}

\* mutation: ORDER BY g.embedding <=> query_embedding, g.priority DESC
OrderedBeforeBySimilarity(table, q, a, b) ==
  \/ Distance(table[a].embedding, q) < Distance(table[b].embedding, q)
  \/ /\ Distance(table[a].embedding, q) = Distance(table[b].embedding, q)
     /\ table[a].priority >= table[b].priority

\* ORDER BY g.priority DESC, g.embedding <=> query_embedding
OrderedBefore(table, q, a, b) ==
  \/ table[a].priority > table[b].priority
  \/ /\ table[a].priority = table[b].priority
     /\ Distance(table[a].embedding, q) <= Distance(table[b].embedding, q)

Candidate(table, q, id) ==
  [id |-> id, action |-> table[id].action, priority |-> table[id].priority,
   similarity |-> Similarity(table[id].embedding, q)]

\* the rows a query may return: every order ORDER BY allows, cut by LIMIT
QueryRows(table, q, eligible, match_count) ==
  {[i \in 1..Min(match_count, Len(s)) |-> Candidate(table, q, s[i])] :
     s \in {p \in Orderings(eligible) :
              \A i, j \in 1..Len(p) : i < j => OrderedBefore(table, q, p[i], p[j])}}

match_guidelines(table, query_embedding, match_threshold, match_count) ==
  QueryRows(table, query_embedding,
            {id \in DOMAIN table :
               /\ table[id].embedding # Null
               /\ Similarity(table[id].embedding, query_embedding) > match_threshold},
            match_count)

match_guidelines_stateful(table, query_embedding, conversation_state, match_threshold, match_count) ==
  QueryRows(table, query_embedding,
            {id \in DOMAIN table :
               /\ table[id].embedding # Null
               /\ Similarity(table[id].embedding, query_embedding) > match_threshold
               /\ ~(id \in conversation_state)},
            match_count)

\* a call of one of the two SQL functions: match_guidelines has no
\* conversation_state parameter
RpcArgs(fn, conversation_state, match_threshold, match_count) ==
  [fn |-> fn, conversation_state |-> conversation_state,
   match_threshold |-> match_threshold, match_count |-> match_count]
NoCall == RpcArgs("none", {}, Null, Null)

\* candidateGuidelines || []
OrEmpty(data) == IF data.isNull THEN <<>> ELSE data.rows

\* ------------------------------------------------------------ classifier
Scores == {9}
\* the applies field of a result, as the JSON text of its value
JsonTrue == "true"
JsonBooleans == {JsonTrue, "false"}
MatchResults ==
  [guideline_id : GuidelineIds \cup {UnknownGuideline}, applies : JsonBooleans, score : Scores]
\* the arrays a reply may hold: at most MaxResults results, ids ascending
\* (one id is that of no guideline)
ResultArrays ==
  UNION {{a \in [1..n -> MatchResults] :
            \A i, j \in 1..n : i < j => a[i].guideline_id < a[j].guideline_id} :
         n \in 0..MaxResults}

\* response.choices[0]?.message?.content as a JSON text: "missing" is an
\* absent or empty content, "invalid" a text JSON.parse rejects; an object is
\* known by its first value
JsonContents ==
  {[t |-> k, first |-> "none", items |-> <<>>] : k \in {"missing", "invalid", "null", "scalar"}}
    \cup {[t |-> "object", first |-> f, items |-> <<>>] : f \in {"none", "scalar"}}
    \cup {[t |-> k, first |-> "array", items |-> a] : k \in {"object", "array"}, a \in ResultArrays}

ClassifierReplies ==
  {[call |-> "throws", content |-> [t |-> "missing", first |-> "none", items |-> <<>>]]}
    \cup {[call |-> "ok", content |-> c] : c \in JsonContents}

NoReply == [call |-> "none", content |-> [t |-> "missing", first |-> "none", items |-> <<>>]]

\* a reply without the results it carries
Shape(reply) == [call |-> reply.call, t |-> reply.content.t, first |-> reply.content.first]
NotCalled == Shape(NoReply)

\* content || "[]"
ContentOrDefault(content) ==
  IF content.t = "missing" THEN [t |-> "array", first |-> "array", items |-> <<>>] ELSE content

\* Object.values(responseObject)[0] is an array
FirstValueIsArray(responseObject) ==
  responseObject.t = "object" /\ responseObject.first = "array"

\* the try block of guidelineMatching: [threw, value]
MatchingTry(reply) ==
  IF reply.call = "throws" THEN [threw |-> TRUE, value |-> <<>>]
  ELSE IF reply.content.t = "invalid" THEN [threw |-> TRUE, value |-> <<>>]
  ELSE LET responseObject == ContentOrDefault(reply.content) IN
       IF responseObject.t = "array" THEN [threw |-> FALSE, value |-> responseObject.items]
       ELSE IF responseObject.t = "null" THEN [threw |-> TRUE, value |-> <<>>]
       ELSE IF FirstValueIsArray(responseObject)
            THEN [threw |-> FALSE, value |-> responseObject.items]
            ELSE [threw |-> FALSE, value |-> <<>>]

\* guidelineMatching without its catch: a mutation of the code
guidelineMatchingNoCatch(candidates, reply) ==
  IF Len(candidates) = 0 THEN [threw |-> FALSE, value |-> <<>>] ELSE MatchingTry(reply)

guidelineMatching(candidates, reply) ==
  IF Len(candidates) = 0 THEN [threw |-> FALSE, value |-> <<>>]
  ELSE LET r == MatchingTry(reply) IN
       IF r.threw THEN [threw |-> FALSE, value |-> <<>>] ELSE r

\* the JSON texts of the values JavaScript takes for true in a condition
Truthy == {JsonTrue, "\"true\"", "1"}

\* mutation: the filter tests r.applies without the comparison with true
FilterActiveTruthy(candidates, results) ==
  SelectSeq(candidates,
            LAMBDA g : \E i \in 1..Len(results) :
                         results[i].guideline_id = g.id /\ results[i].applies \in Truthy)

\* (candidateGuidelines || []).filter(g => matchingResults.some(
\*    r => r.guideline_id === g.id && r.applies === true))
FilterActive(candidates, results) ==
  SelectSeq(candidates,
            LAMBDA g : \E i \in 1..Len(results) :
                         results[i].guideline_id = g.id /\ results[i].applies = JsonTrue)

\* mutation: the section is the joined actions also when there are none
DynamicActionsNoFallback(active) ==
  [kind |-> "instructions", actions |-> [i \in 1..Len(active) |-> active[i].action]]

\* mutation: the actions are joined last to first
DynamicActionsReversed(active) ==
  IF Len(active) > 0
  THEN [kind |-> "instructions",
        actions |-> [i \in 1..Len(active) |-> active[Len(active) + 1 - i].action]]
  ELSE [kind |-> "fallback", actions |-> <<>>]

\* dynamicActions: the instruction section of systemPrompt
DynamicActions(active) ==
  IF Len(active) > 0
  THEN [kind |-> "instructions", actions |-> [i \in 1..Len(active) |-> active[i].action]]
  ELSE [kind |-> "fallback", actions |-> <<>>]

NoPrompt == [kind |-> "none", actions |-> <<>>]

\* mutation: the supervisor is given the first active guideline only
CorrectionPromptFirstOnly(active) ==
  [kind |-> "instructions", actions |-> <<active[1].action>>]

\* the INSTRUCTIONS TO FOLLOW section of correctionPrompt
CorrectionPrompt(active) ==
  [kind |-> "instructions", actions |-> [i \in 1..Len(active) |-> active[i].action]]

\* ---------------------------------------------------------------- frames
\* a frame is its kind and the JSON object of its data line: the fields of
\* the record other than type are the keys of that object
SessionFrame(sid) == [type |-> "sessionId", sessionId |-> sid]
ContentFrame(content) == [type |-> "content", content |-> content]
FinalData(results, active) ==
  [type |-> "metadata", guidelineMatchingResults |-> results, activeGuidelines |-> active]
\* data: [DONE]
DoneFrame == [type |-> "done"]

RECURSIVE ConcatTexts(_)
ConcatTexts(texts) ==
  IF Len(texts) = 0 THEN <<>> ELSE Head(texts) \o ConcatTexts(Tail(texts))

ContentOf(fs) ==
  ConcatTexts([i \in 1..Len(SelectSeq(fs, LAMBDA f : f.type = "content")) |->
                 SelectSeq(fs, LAMBDA f : f.type = "content")[i].content])

\* the stream superviseAndCorrectResponseStream returns
GeneratorStream(initialResponse) == [kind |-> "generator", remaining |-> <<initialResponse>>]
OpenAIStream == [kind |-> "openai", remaining |-> <<>>]
NoStream == [kind |-> "none", remaining |-> <<>>]

IdsOf(gs) == {gs[i].id : i \in 1..Len(gs)}

\* --------------------------------------------------------------- sessions
\* mutation: the insert rewrites the state of every row
InsertSessionResetting(ss, id) == [x \in DOMAIN ss \cup {id} |-> {}]

\* insert({ state: {} }).select("id").single(): a new row with an empty state
InsertSession(ss, id) == [x \in DOMAIN ss \cup {id} |-> IF x = id THEN {} ELSE ss[x]]

\* the insert as a database write, made when `produced` increments of the
\* final text had been read
InsertWrite(id, produced) ==
  [op |-> "insert", table |-> "conversation_sessions", id |-> id, produced |-> produced]

\* mutation: the id of the created row is never assigned
ResolveSessionIdUnassigned(currentSessionId, createdId) == currentSessionId

\* let sessionId = currentSessionId; if (!sessionId) ... sessionId = data.id
ResolveSessionId(currentSessionId, createdId) ==
  IF currentSessionId = NoSession THEN createdId ELSE currentSessionId

\* ------------------------------------------------------------------ Init
\* the two PUT handlers of guidelines/[id]/route.ts: a deployment has one
PutRoutes == {"first", "second"}
\* no PUT in flight
NoPut == [pc |-> "idle", id |-> Null, condition |-> Null, embedding |-> Null]
\* no regenerate-embeddings request in flight
NoRegenerate == [pc |-> "idle", guidelines |-> <<>>, embedding |-> Null]
\* no guideline request is in flight (and none is made: route "none")
IdleAdmin == [route |-> "none", put |-> NoPut, regenerate |-> NoRegenerate]
\* the dashboard before a message is submitted: no session, nothing shown
IdleClient ==
  [reader |-> "idle", wire |-> <<>>, sessionId |-> NoSession,
   submittedSessionId |-> NoSession,
   message |-> [shown |-> FALSE, content |-> <<>>],
   activeGuidelines |-> <<>>, guidelineMatchingResults |-> <<>>,
   accomplishedGuidelines |-> <<>>, reset |-> FALSE]

\* the guidelines as the setup script inserts them: no embedding yet
SeededRows ==
  [id \in GuidelineIds |->
     [condition |-> id, action |-> id, priority |-> SeedPriority[id],
      embedding |-> Null]]

\* the seeded guidelines, each with the embedding of its condition
SeededTable ==
  [id \in GuidelineIds |->
     [condition |-> id, action |-> id, priority |-> SeedPriority[id],
      embedding |-> Embed(id)]]

IdleTurn ==
  /\ reqSid = NoSession
  /\ sessionId = NoSession
  /\ query = Null
  /\ rpcData = [isNull |-> TRUE, rows |-> <<>>]
  /\ classifier = NotCalled
  /\ matchingResults = <<>>
  /\ activeGuidelines = <<>>
  /\ dynamicActions = NoPrompt
  /\ draft = <<>>
  /\ correctionStream = NoStream
  /\ pulled = <<>>
  /\ frames = <<>>
  /\ streamState = "none"
  /\ response = "none"
  /\ failures = {}
  /\ rpcArgs = NoCall
  /\ writes = <<>>
  /\ correctionPrompt = NoPrompt
  /\ stages = <<>>

\* the database as the handler finds it: the seeded guidelines, before or
\* after their embeddings were generated, and one session row whose state
\* column ("tracks accomplished guidelines") records guideline 1; the handler
\* itself only ever inserts rows with an empty state
Init ==
  /\ guidelines \in {SeededRows, SeededTable}
  /\ sessions = [s \in {1} |-> {1}]
  /\ turns = 0
  /\ pc = "idle"
  /\ IdleTurn
  /\ admin = IdleAdmin
  /\ client = IdleClient
  /\ sessionsBefore = sessions
  /\ everActive = [s \in SessionIds |-> {}]

\* --------------------------------------------------------------- actions
\* the catch of POST: status 500 with an error body
Fail(cause) ==
  /\ pc' = "failed"
  /\ response' = "error500"
  /\ failures' = failures \cup {cause}

\* req.json() rejects, or messages has no last element
MalformedRequest ==
  /\ pc = "idle"
  /\ turns < MaxTurns
  /\ turns' = turns + 1
  /\ Fail("request")
  /\ sessionsBefore' = sessions
  /\ UNCHANGED <<guidelines, admin, client, correctionPrompt, stages,
                 sessions, reqSid, sessionId, query, rpcData, classifier, matchingResults, activeGuidelines, dynamicActions, draft,
                 correctionStream, pulled, frames, streamState, everActive, rpcArgs,
                 writes>>

\* a request that carries a session id: no row is read or written
ReceiveWithSession ==
  /\ pc = "idle"
  /\ turns < MaxTurns
  /\ \E sid \in DOMAIN sessions \cup {UnknownSid} :
       /\ reqSid' = sid
       /\ sessionId' = ResolveSessionId(sid, NoSession)
  /\ turns' = turns + 1
  /\ pc' = "embed"
  /\ sessionsBefore' = sessions
  /\ UNCHANGED <<guidelines, admin, client, correctionPrompt, stages,
                 sessions, query, rpcData, classifier,
                 matchingResults, activeGuidelines, dynamicActions, draft,
                 correctionStream, pulled, frames, streamState, response, failures,
                 everActive, rpcArgs, writes>>

ReceiveWithoutSession ==
  /\ pc = "idle"
  /\ turns < MaxTurns
  /\ reqSid' = NoSession
  /\ turns' = turns + 1
  /\ pc' = "insert"
  /\ sessionsBefore' = sessions
  /\ UNCHANGED <<guidelines, admin, client, correctionPrompt, stages,
                 sessions, sessionId, query, rpcData, classifier,
                 matchingResults, activeGuidelines, dynamicActions, draft,
                 correctionStream, pulled, frames, streamState, response, failures,
                 everActive, rpcArgs, writes>>

InsertSessionOk ==
  /\ pc = "insert"
  /\ LET id == Cardinality(DOMAIN sessions) + 1 IN
       /\ sessions' = InsertSession(sessions, id)
       /\ sessionId' = ResolveSessionId(reqSid, id)
       /\ writes' = Append(writes, InsertWrite(id, Len(pulled)))
  /\ pc' = "embed"
  /\ UNCHANGED <<guidelines, admin, client, correctionPrompt, stages,
                 turns, reqSid, query, rpcData, classifier,
                 matchingResults, activeGuidelines, dynamicActions, draft,
                 correctionStream, pulled, frames, streamState, response, failures,
                 everActive, rpcArgs, sessionsBefore>>

\* mutation: the turn goes on without a session when the insert returns no data
InsertSessionFailsContinues ==
  /\ pc = "insert"
  /\ failures' = failures \cup {"insert"}
  /\ pc' = "embed"
  /\ UNCHANGED <<guidelines, admin, client, correctionPrompt, stages,
                 sessions, turns, reqSid, sessionId, query, rpcData,
                 classifier, matchingResults, activeGuidelines,
                 dynamicActions, draft, correctionStream, pulled, frames, streamState,
                 response, everActive, rpcArgs, sessionsBefore, writes>>

\* the insert returns no data: throw new Error("Failed to create session.")
InsertSessionFails ==
  /\ pc = "insert"
  /\ Fail("insert")
  /\ UNCHANGED <<guidelines, admin, client, correctionPrompt, stages,
                 sessions, turns, reqSid, sessionId, query, rpcData,
                 classifier, matchingResults, activeGuidelines,
                 dynamicActions, draft, correctionStream, pulled, frames, streamState,
                 everActive, rpcArgs,
                 sessionsBefore, writes>>

EmbedOk ==
  /\ pc = "embed"
  /\ stages' = Append(stages, "embedding")
  /\ query' \in Embeddings
  /\ pc' = "retrieve"
  /\ UNCHANGED <<guidelines, admin, client, correctionPrompt,
                 sessions, turns, reqSid, sessionId, rpcData, classifier, matchingResults, activeGuidelines, dynamicActions, draft,
                 correctionStream, pulled, frames, streamState, response, failures,
                 everActive, rpcArgs,
                 sessionsBefore, writes>>

EmbedFails ==
  /\ pc = "embed"
  /\ stages' = Append(stages, "embedding")
  /\ Fail("embedding")
  /\ UNCHANGED <<guidelines, admin, client, correctionPrompt,
                 sessions, turns, reqSid, sessionId, query, rpcData,
                 classifier, matchingResults, activeGuidelines,
                 dynamicActions, draft, correctionStream, pulled, frames, streamState,
                 everActive, rpcArgs,
                 sessionsBefore, writes>>

\* supabase.rpc("match_guidelines", ...) answers with rows
RetrieveOk ==
  /\ pc = "retrieve"
  /\ stages' = Append(stages, "retrieval")
  /\ \E rows \in match_guidelines(guidelines, query, MatchThreshold, MatchCount) :
       rpcData' = [isNull |-> FALSE, rows |-> rows]
  /\ rpcArgs' = RpcArgs("match_guidelines", {}, MatchThreshold, MatchCount)
  /\ pc' = "classify"
  /\ UNCHANGED <<guidelines, admin, client, correctionPrompt,
                 sessions, turns, reqSid, sessionId, query, classifier,
                 matchingResults, activeGuidelines, dynamicActions, draft,
                 correctionStream, pulled, frames, streamState, response, failures,
                 everActive, sessionsBefore, writes>>

\* the rpc answers { data: null, error }: only data is read
RetrieveError ==
  /\ pc = "retrieve"
  /\ stages' = Append(stages, "retrieval")
  /\ rpcData' = [isNull |-> TRUE, rows |-> <<>>]
  /\ failures' = failures \cup {"retrieval"}
  /\ rpcArgs' = RpcArgs("match_guidelines", {}, MatchThreshold, MatchCount)
  /\ pc' = "classify"
  /\ UNCHANGED <<guidelines, admin, client, correctionPrompt,
                 sessions, turns, reqSid, sessionId, query, classifier,
                 matchingResults, activeGuidelines, dynamicActions, draft,
                 correctionStream, pulled, frames, streamState, response,
                 everActive, sessionsBefore, writes>>

\* lines 172-187 once guidelineMatching has settled with reply; what the
\* function throws reaches the catch of POST
AfterMatching(reply) ==
  LET candidateGuidelines == OrEmpty(rpcData)
      r == guidelineMatching(candidateGuidelines, reply)
      faulted == Len(candidateGuidelines) > 0 /\ MatchingTry(reply).threw
  IN /\ classifier' = Shape(reply)
     /\ stages' = Append(stages, "classification")
     /\ failures' = IF faulted THEN failures \cup {"classifier"} ELSE failures
     /\ IF r.threw
        THEN /\ pc' = "failed"
             /\ response' = "error500"
             /\ UNCHANGED <<matchingResults, activeGuidelines, dynamicActions>>
        ELSE /\ matchingResults' = r.value
             /\ activeGuidelines' = FilterActive(candidateGuidelines, r.value)
             /\ dynamicActions' = DynamicActions(FilterActive(candidateGuidelines, r.value))
             /\ pc' = "generate"
             /\ UNCHANGED response
     /\ UNCHANGED <<guidelines, admin, client, correctionPrompt,
                    sessions, turns, reqSid, sessionId, query, rpcData,
                    draft, correctionStream, pulled, frames, streamState, everActive, rpcArgs,
                 sessionsBefore, writes>>

\* mutation: the classifier is called also when there is no candidate
ClassifySkippedCalls ==
  /\ pc = "classify"
  /\ Len(OrEmpty(rpcData)) = 0
  /\ \E reply \in ClassifierReplies : AfterMatching(reply)

\* no candidates: guidelineMatching returns [] without a call
ClassifySkipped ==
  /\ pc = "classify"
  /\ Len(OrEmpty(rpcData)) = 0
  /\ AfterMatching(NoReply)

ClassifyCall ==
  /\ pc = "classify"
  /\ Len(OrEmpty(rpcData)) > 0
  /\ \E reply \in ClassifierReplies : AfterMatching(reply)

\* the draft arrives; the ReadableStream is built, start() enqueues the
\* session frame and POST returns the Response
GenerateOk ==
  /\ pc = "generate"
  /\ stages' = Append(stages, "generation")
  /\ draft' \in DraftTexts
  /\ frames' = <<SessionFrame(sessionId)>>
  /\ streamState' = "readable"
  /\ response' = "stream"
  /\ pc' = "supervise"
  /\ UNCHANGED <<guidelines, admin, client, correctionPrompt,
                 sessions, turns, reqSid, sessionId, query, rpcData,
                 classifier, matchingResults, activeGuidelines,
                 dynamicActions, correctionStream, pulled, failures, everActive, rpcArgs,
                 sessionsBefore, writes>>

\* mutation: a failed generation is swallowed and an empty draft is streamed
GenerateFailsSwallowed ==
  /\ pc = "generate"
  /\ stages' = Append(stages, "generation")
  /\ failures' = failures \cup {"generation"}
  /\ draft' = <<>>
  /\ frames' = <<SessionFrame(sessionId)>>
  /\ streamState' = "readable"
  /\ response' = "stream"
  /\ pc' = "supervise"
  /\ UNCHANGED <<guidelines, admin, client, correctionPrompt,
                 sessions, turns, reqSid, sessionId, query, rpcData,
                 classifier, matchingResults, activeGuidelines,
                 dynamicActions, correctionStream, pulled, everActive, rpcArgs,
                 sessionsBefore, writes>>

\* openai.chat.completions.create rejects: the catch of POST
GenerateFails ==
  /\ pc = "generate"
  /\ stages' = Append(stages, "generation")
  /\ Fail("generation")
  /\ UNCHANGED <<guidelines, admin, client, correctionPrompt,
                 sessions, turns, reqSid, sessionId, query, rpcData,
                 classifier, matchingResults, activeGuidelines,
                 dynamicActions, draft, correctionStream, pulled, frames, streamState,
                 everActive, rpcArgs,
                 sessionsBefore, writes>>

\* mutation: the supervising call is issued also for no active guideline
SuperviseNoGuidelinesCalls ==
  /\ pc = "supervise"
  /\ stages' = Append(stages, "supervision")
  /\ Len(activeGuidelines) = 0
  /\ correctionPrompt' = CorrectionPrompt(activeGuidelines)
  /\ correctionStream' = OpenAIStream
  /\ pc' = "streaming"
  /\ UNCHANGED <<guidelines, admin, client,
                 sessions, turns, reqSid, sessionId, query, rpcData,
                 classifier, matchingResults, activeGuidelines,
                 dynamicActions, draft, pulled, frames, streamState, response,
                 failures, everActive, rpcArgs, sessionsBefore, writes>>

\* superviseAndCorrectResponseStream with no active guideline: the draft as
\* a single chunk
SuperviseNoGuidelines ==
  /\ pc = "supervise"
  /\ stages' = Append(stages, "supervision")
  /\ Len(activeGuidelines) = 0
  /\ correctionStream' = GeneratorStream(draft)
  /\ pc' = "streaming"
  /\ UNCHANGED <<guidelines, admin, client, correctionPrompt,
                 sessions, turns, reqSid, sessionId, query, rpcData,
                 classifier, matchingResults, activeGuidelines,
                 dynamicActions, draft, pulled, frames, streamState, response,
                 failures, everActive, rpcArgs,
                 sessionsBefore, writes>>

\* mutation: the supervising call is issued while the draft is awaited
SuperviseBeforeDraft ==
  /\ pc \in {"generate", "supervise"}
  /\ Len(activeGuidelines) > 0
  /\ correctionPrompt' = CorrectionPrompt(activeGuidelines)
  /\ stages' = Append(stages, "supervision")
  /\ correctionStream' = OpenAIStream
  /\ pc' = "streaming"
  /\ UNCHANGED <<guidelines, admin, client,
                 sessions, turns, reqSid, sessionId, query, rpcData,
                 classifier, matchingResults, activeGuidelines,
                 dynamicActions, draft, pulled, frames, streamState, response,
                 failures, everActive, rpcArgs, sessionsBefore, writes>>

\* the supervising call answers with a stream
SuperviseCallOk ==
  /\ pc = "supervise"
  /\ Len(activeGuidelines) > 0
  /\ correctionPrompt' = CorrectionPrompt(activeGuidelines)
  /\ stages' = Append(stages, "supervision")
  /\ correctionStream' = OpenAIStream
  /\ pc' = "streaming"
  /\ UNCHANGED <<guidelines, admin, client,
                 sessions, turns, reqSid, sessionId, query, rpcData,
                 classifier, matchingResults, activeGuidelines,
                 dynamicActions, draft, pulled, frames, streamState, response,
                 failures, everActive, rpcArgs,
                 sessionsBefore, writes>>

\* the supervising call throws: the catch returns the draft as a single chunk
SuperviseCallFails ==
  /\ pc = "supervise"
  /\ Len(activeGuidelines) > 0
  /\ correctionPrompt' = CorrectionPrompt(activeGuidelines)
  /\ stages' = Append(stages, "supervision")
  /\ correctionStream' = GeneratorStream(draft)
  /\ failures' = failures \cup {"supervisor"}
  /\ pc' = "streaming"
  /\ UNCHANGED <<guidelines, admin, client,
                 sessions, turns, reqSid, sessionId, query, rpcData,
                 classifier, matchingResults, activeGuidelines,
                 dynamicActions, draft, pulled, frames, streamState, response,
                 everActive, rpcArgs,
                 sessionsBefore, writes>>

\* mutation: the loop enqueues a frame for every chunk, without if (content)
ForwardEveryChunk(content) ==
  /\ pulled' = Append(pulled, content)
  /\ IF streamState = "readable"
     THEN frames' = Append(frames, ContentFrame(content)) /\ UNCHANGED pc
     ELSE pc' = "aborted" /\ UNCHANGED frames

\* the body of the for await loop for a chunk whose delta content is
\* content: an empty or missing content is skipped; controller.enqueue throws
\* once the stream is no longer readable, which ends start()
Forward(content) ==
  /\ pulled' = Append(pulled, content)
  /\ IF content = <<>>
     THEN UNCHANGED <<frames, pc>>
     ELSE IF streamState = "readable"
          THEN frames' = Append(frames, ContentFrame(content)) /\ UNCHANGED pc
          ELSE pc' = "aborted" /\ UNCHANGED frames

PullGeneratorChunk ==
  /\ pc = "streaming"
  /\ correctionStream.kind = "generator"
  /\ Len(correctionStream.remaining) > 0
  /\ Forward(Head(correctionStream.remaining))
  /\ correctionStream' = [correctionStream EXCEPT !.remaining = Tail(@)]
  /\ UNCHANGED <<guidelines, admin, client, correctionPrompt, stages,
                 sessions, turns, reqSid, sessionId, query, rpcData,
                 classifier, matchingResults, activeGuidelines,
                 dynamicActions, draft, streamState, response, failures,
                 everActive, rpcArgs,
                 sessionsBefore, writes>>

PullOpenAIChunk ==
  /\ pc = "streaming"
  /\ correctionStream.kind = "openai"
  /\ Len(pulled) < MaxChunks
  /\ \E content \in ChunkTexts : Forward(content)
  /\ UNCHANGED <<guidelines, admin, client, correctionPrompt, stages,
                 sessions, turns, reqSid, sessionId, query, rpcData,
                 classifier, matchingResults, activeGuidelines,
                 dynamicActions, draft, correctionStream, streamState, response,
                 failures, everActive, rpcArgs,
                 sessionsBefore, writes>>

\* the correction stream is exhausted: final metadata, [DONE], close
StreamEnds ==
  /\ pc = "streaming"
  /\ correctionStream.kind = "generator" => Len(correctionStream.remaining) = 0
  /\ IF streamState = "readable"
     THEN /\ frames' = frames \o <<FinalData(matchingResults, activeGuidelines), DoneFrame>>
          /\ streamState' = "closed"
          /\ pc' = "done"
          /\ everActive' = [everActive EXCEPT ![sessionId] = @ \cup IdsOf(activeGuidelines)]
     ELSE /\ pc' = "aborted"
          /\ UNCHANGED <<frames, streamState, everActive>>
  /\ UNCHANGED <<guidelines, admin, client, correctionPrompt, stages,
                 sessions, turns, reqSid, sessionId, query, rpcData,
                 classifier, matchingResults, activeGuidelines,
                 dynamicActions, draft, correctionStream, pulled, response,
                 failures, rpcArgs, sessionsBefore, writes>>

\* the supervisor's stream throws while it is iterated: start() rejects and
\* the response stream is errored
StreamThrows ==
  /\ pc = "streaming"
  /\ correctionStream.kind = "openai"
  /\ streamState' = IF streamState = "readable" THEN "errored" ELSE streamState
  /\ failures' = failures \cup {"supervisorStream"}
  /\ pc' = "errored"
  /\ UNCHANGED <<guidelines, admin, client, correctionPrompt, stages,
                 sessions, turns, reqSid, sessionId, query, rpcData,
                 classifier, matchingResults, activeGuidelines,
                 dynamicActions, draft, correctionStream, pulled, frames, response,
                 everActive, rpcArgs,
                 sessionsBefore, writes>>

\* the client disconnects: the response stream is cancelled
ClientCancel ==
  /\ pc \in {"supervise", "streaming"}
  /\ streamState = "readable"
  /\ streamState' = "cancelled"
  /\ UNCHANGED <<guidelines, admin, client, correctionPrompt, stages,
                 sessions, turns, pc, reqSid, sessionId, query, rpcData,
                 classifier, matchingResults, activeGuidelines,
                 dynamicActions, draft, correctionStream, pulled, frames, response,
                 failures, everActive, rpcArgs,
                 sessionsBefore, writes>>

Terminal == {"done", "failed", "errored", "aborted"}

\* the handler is ready for the next request
NextTurn ==
  /\ pc \in Terminal
  /\ turns < MaxTurns
  /\ pc' = "idle"
  /\ reqSid' = NoSession
  /\ sessionId' = NoSession
  /\ query' = Null
  /\ rpcData' = [isNull |-> TRUE, rows |-> <<>>]
  /\ classifier' = NotCalled
  /\ matchingResults' = <<>>
  /\ activeGuidelines' = <<>>
  /\ dynamicActions' = NoPrompt
  /\ draft' = <<>>
  /\ correctionStream' = NoStream
  /\ pulled' = <<>>
  /\ frames' = <<>>
  /\ streamState' = "none"
  /\ response' = "none"
  /\ failures' = {}
  /\ rpcArgs' = NoCall
  /\ sessionsBefore' = sessions
  /\ writes' = <<>>
  /\ correctionPrompt' = NoPrompt
  /\ stages' = <<>>
  /\ UNCHANGED <<guidelines, admin, client, sessions, turns, everActive>>

Next ==
  \/ MalformedRequest
  \/ ReceiveWithSession
  \/ ReceiveWithoutSession
  \/ InsertSessionOk
  \/ InsertSessionFails
  \/ EmbedOk
  \/ EmbedFails
  \/ RetrieveOk
  \/ RetrieveError
  \/ ClassifySkipped
  \/ ClassifyCall
  \/ GenerateOk
  \/ GenerateFails
  \/ SuperviseNoGuidelines
  \/ SuperviseCallOk
  \/ SuperviseCallFails
  \/ PullGeneratorChunk
  \/ PullOpenAIChunk
  \/ StreamEnds
  \/ StreamThrows
  \/ ClientCancel
  \/ NextTurn

Spec == Init /\ [][Next]_vars

\* ------------------------------------------- the SQL functions on their own
\* the tables the functions are applied to: three guidelines, each with one
\* of two priorities and with an embedding or none
TableIds == {1, 2, 3}
TablePriorities == {0, 10}
RetrieverTables ==
  {[id \in TableIds |->
      [condition |-> id, action |-> id, priority |-> p[id], embedding |-> e[id]]] :
     p \in [TableIds -> TablePriorities], e \in [TableIds -> Embeddings \cup {Null}]}
\* the match_threshold and match_count arguments of a call
Thresholds == {0, MatchThreshold, 70}
Counts == {1, 2, MatchCount}

InitRetriever ==
  /\ guidelines \in RetrieverTables
  /\ sessions = [s \in {1} |-> {1}]
  /\ turns = 0
  /\ pc = "idle"
  /\ IdleTurn
  /\ admin = IdleAdmin
  /\ client = IdleClient
  /\ sessionsBefore = sessions
  /\ everActive = [s \in SessionIds |-> {}]

\* the call has returned rows
Returned(fn, q, conversation_state, tau, n, rows) ==
  /\ query' = q
  /\ rpcArgs' = RpcArgs(fn, conversation_state, tau, n)
  /\ rpcData' = [isNull |-> FALSE, rows |-> rows]
  /\ pc' = "sql"
  /\ UNCHANGED <<guidelines, admin, client, correctionPrompt, stages,
                 sessions, turns, reqSid, sessionId, classifier,
                 matchingResults, activeGuidelines, dynamicActions, draft,
                 correctionStream, pulled, frames, streamState, response, failures,
                 everActive, sessionsBefore, writes>>

\* select * from match_guidelines(query_embedding, match_threshold, match_count)
CallMatchGuidelines ==
  /\ pc = "idle"
  /\ \E q \in Embeddings, tau \in Thresholds, n \in Counts :
       \E rows \in match_guidelines(guidelines, q, tau, n) :
         Returned("match_guidelines", q, {}, tau, n, rows)

\* select * from match_guidelines_stateful(query_embedding,
\*   conversation_state, match_threshold, match_count)
CallMatchGuidelinesStateful ==
  /\ pc = "idle"
  /\ \E q \in Embeddings, tau \in Thresholds, n \in Counts, accomplished \in SUBSET TableIds :
       \E rows \in match_guidelines_stateful(guidelines, q, accomplished, tau, n) :
         Returned("match_guidelines_stateful", q, accomplished, tau, n, rows)

NextRetriever ==
  \/ CallMatchGuidelines
  \/ CallMatchGuidelinesStateful

SpecRetriever == InitRetriever /\ [][NextRetriever]_vars

\* ------------------------------------------ the active filter on its own
\* what the classifier may put in a result: applies as a boolean, the string
\* "true" or the number 1, two scores, two reasons
JsonApplies == JsonBooleans \cup {"\"true\"", "1"}
FilterScores == {1, 9}
Reasons == {"r1", "r2"}
FilterResults ==
  [guideline_id : GuidelineIds \cup {UnknownGuideline}, applies : JsonApplies,
   score : FilterScores, reason : Reasons]
FilterResultArrays == UNION {[1..n -> FilterResults] : n \in 0..MaxResults}

\* the answers of the rpc the filter is applied to: no data, or the rows
\* match_guidelines returns from the seeded table
CandidateData ==
  {[isNull |-> TRUE, rows |-> <<>>]}
    \cup {[isNull |-> FALSE, rows |-> rows] :
            rows \in UNION {match_guidelines(SeededTable, q, tau, MatchCount) :
                              q \in Embeddings, tau \in Thresholds}}

InitMatching ==
  /\ guidelines = SeededTable
  /\ sessions = [s \in {1} |-> {1}]
  /\ turns = 0
  /\ pc = "idle"
  /\ reqSid = NoSession
  /\ sessionId = NoSession
  /\ query = Null
  /\ rpcData \in CandidateData
  /\ classifier = NotCalled
  /\ matchingResults = <<>>
  /\ activeGuidelines = <<>>
  /\ dynamicActions = NoPrompt
  /\ draft = <<>>
  /\ correctionStream = NoStream
  /\ pulled = <<>>
  /\ frames = <<>>
  /\ streamState = "none"
  /\ response = "none"
  /\ failures = {}
  /\ rpcArgs = NoCall
  /\ writes = <<>>
  /\ correctionPrompt = NoPrompt
  /\ stages = <<>>
  /\ admin = IdleAdmin
  /\ client = IdleClient
  /\ sessionsBefore = sessions
  /\ everActive = [s \in SessionIds |-> {}]

\* lines 175-181 for a list of results
ApplyFilter ==
  /\ pc = "idle"
  /\ \E results \in FilterResultArrays :
       /\ matchingResults' = results
       /\ activeGuidelines' = FilterActive(OrEmpty(rpcData), results)
       /\ dynamicActions' = DynamicActions(FilterActive(OrEmpty(rpcData), results))
  /\ pc' = "filtered"
  /\ UNCHANGED <<guidelines, admin, client, correctionPrompt, stages,
                 sessions, turns, reqSid, sessionId, query, rpcData,
                 classifier, draft, correctionStream, pulled, frames, streamState,
                 response, failures, everActive, rpcArgs, sessionsBefore, writes>>

NextMatching == ApplyFilter

SpecMatching == InitMatching /\ [][NextMatching]_vars

\* ----------------------------------- the guideline routes on their own
\* the condition texts a guideline may be given
Conditions == {1, 2, 3}

\* what the chat handler and the dashboard hold: the guideline routes leave
\* it alone
chatVars == <<sessions, turns, pc, reqSid, sessionId, query, rpcData, classifier,
              matchingResults, activeGuidelines, dynamicActions, draft,
              correctionStream, pulled, frames, streamState, response, failures,
              everActive, rpcArgs, sessionsBefore, writes, correctionPrompt, stages,
              client>>

\* tables in which a guideline has no embedding or that of its condition
EmbeddedTables ==
  {[id \in GuidelineIds |->
      [condition |-> c[id], action |-> id, priority |-> SeedPriority[id],
       embedding |-> IF e[id] THEN Embed(c[id]) ELSE Null]] :
     c \in [GuidelineIds -> Conditions], e \in [GuidelineIds -> BOOLEAN]}

InitGuidelines ==
  /\ guidelines \in EmbeddedTables
  /\ admin \in {[IdleAdmin EXCEPT !.route = r] : r \in PutRoutes}
  /\ sessions = [s \in {1} |-> {1}]
  /\ turns = 0
  /\ pc = "idle"
  /\ IdleTurn
  /\ client = IdleClient
  /\ sessionsBefore = sessions
  /\ everActive = [s \in SessionIds |-> {}]

\* PUT, first handler: one update that writes the fields and embedding: null
PutForcingRegeneration ==
  /\ admin.route = "first"
  /\ \E id \in DOMAIN guidelines, condition \in Conditions :
       guidelines' = [guidelines EXCEPT ![id].condition = condition,
                                        ![id].embedding = Null]
  /\ UNCHANGED <<admin, chatVars>>

\* PUT, second handler: the embedding of the new condition is requested; a
\* failure is caught and the embedding stays null
PutEmbed ==
  /\ admin.route = "second"
  /\ admin.put.pc = "idle"
  /\ \E id \in DOMAIN guidelines, condition \in Conditions, ok \in BOOLEAN :
       admin' = [admin EXCEPT !.put =
                   [pc |-> "embedded", id |-> id, condition |-> condition,
                    embedding |-> IF ok THEN Embed(condition) ELSE Null]]
  /\ UNCHANGED <<guidelines, chatVars>>

\* PUT, second handler: the update writes the fields and the embedding
PutUpdate ==
  /\ admin.put.pc = "embedded"
  /\ guidelines' = [guidelines EXCEPT ![admin.put.id].condition = admin.put.condition,
                                      ![admin.put.id].embedding = admin.put.embedding]
  /\ admin' = [admin EXCEPT !.put = NoPut]
  /\ UNCHANGED chatVars

\* PUT, second handler: the update answers an error, status 500
PutUpdateFails ==
  /\ admin.put.pc = "embedded"
  /\ admin' = [admin EXCEPT !.put = NoPut]
  /\ UNCHANGED <<guidelines, chatVars>>

\* id and condition of a row, as the select returned them
Selected(id) == [id |-> id, condition |-> guidelines[id].condition]

\* regenerate-embeddings reads the guidelines whose embedding is null, in
\* some order; with none it answers at once
RegenerateSelect ==
  /\ admin.regenerate.pc = "idle"
  /\ \E rows \in Orderings({id \in DOMAIN guidelines : guidelines[id].embedding = Null}) :
       /\ Len(rows) > 0
       /\ admin' = [admin EXCEPT !.regenerate =
                      [pc |-> "loop", guidelines |-> [i \in 1..Len(rows) |-> Selected(rows[i])],
                       embedding |-> Null]]
  /\ UNCHANGED <<guidelines, chatVars>>

\* the loop requests the embedding of the condition it read
RegenerateEmbed ==
  /\ admin.regenerate.pc = "loop"
  /\ Len(admin.regenerate.guidelines) > 0
  /\ admin' = [admin EXCEPT !.regenerate.pc = "embedded",
                            !.regenerate.embedding = Embed(Head(admin.regenerate.guidelines).condition)]
  /\ UNCHANGED <<guidelines, chatVars>>

\* the embedding call throws: the catch counts an error and the loop goes on
RegenerateEmbedFails ==
  /\ admin.regenerate.pc = "loop"
  /\ Len(admin.regenerate.guidelines) > 0
  /\ admin' = [admin EXCEPT !.regenerate.guidelines = Tail(@)]
  /\ UNCHANGED <<guidelines, chatVars>>

\* update({ embedding }).eq('id', guideline.id)
RegenerateUpdate ==
  /\ admin.regenerate.pc = "embedded"
  /\ guidelines' = [guidelines EXCEPT ![Head(admin.regenerate.guidelines).id].embedding =
                                        admin.regenerate.embedding]
  /\ admin' = [admin EXCEPT !.regenerate.pc = "loop",
                            !.regenerate.guidelines = Tail(@),
                            !.regenerate.embedding = Null]
  /\ UNCHANGED chatVars

\* the loop is over: the response
RegenerateReturn ==
  /\ admin.regenerate.pc = "loop"
  /\ Len(admin.regenerate.guidelines) = 0
  /\ admin' = [admin EXCEPT !.regenerate = NoRegenerate]
  /\ UNCHANGED <<guidelines, chatVars>>

NextGuidelines ==
  \/ PutForcingRegeneration
  \/ PutEmbed
  \/ PutUpdate
  \/ PutUpdateFails
  \/ RegenerateSelect
  \/ RegenerateEmbed
  \/ RegenerateEmbedFails
  \/ RegenerateUpdate
  \/ RegenerateReturn

SpecGuidelines == InitGuidelines /\ [][NextGuidelines]_vars

\* --------------------------------------------- the dashboard on its own
\* "data: ", character by character
Prefix == <<"d", "a", "t", "a", ":", " ">>

\* the text after "data: ": the JSON object of the frame, or [DONE]
Body(frame) ==
  CASE frame.type = "sessionId" -> <<"{", "sessionId", "}">>
    [] frame.type = "content" -> <<"{">> \o frame.content \o <<"}">>
    [] frame.type = "metadata" -> <<"{", "finalData", "}">>
    [] frame.type = "done" -> <<"[DONE]">>

\* `data: ${...}\n\n`, each character with the number of its frame
Encode(fs, k) ==
  [i \in 1..(Len(Prefix) + Len(Body(fs[k])) + 2) |->
     [frame |-> k,
      char |-> (Prefix \o Body(fs[k]) \o <<"\n", "\n">>)[i]]]

RECURSIVE EncodeFrom(_, _)
EncodeFrom(fs, k) ==
  IF k > Len(fs) THEN <<>> ELSE Encode(fs, k) \o EncodeFrom(fs, k + 1)

\* the bytes of a response stream
Bytes(fs) == EncodeFrom(fs, 1)

\* chunk.split('\n')
RECURSIVE SplitLines(_, _)
SplitLines(chunk, line) ==
  IF Len(chunk) = 0 THEN <<line>>
  ELSE IF Head(chunk).char = "\n" THEN <<line>> \o SplitLines(Tail(chunk), <<>>)
  ELSE SplitLines(Tail(chunk), Append(line, Head(chunk)))

Chars(line) == [i \in 1..Len(line) |-> line[i].char]

\* line.startsWith('data: ')
StartsWithPrefix(line) ==
  /\ Len(line) >= Len(Prefix)
  /\ SubSeq(Chars(line), 1, Len(Prefix)) = Prefix

\* line.slice(6)
Data(line) == SubSeq(Chars(line), Len(Prefix) + 1, Len(line))

\* JSON.parse(data) returns: data is the whole object text of the frame its
\* characters come from (a part of an object text is not JSON)
Parses(fs, line) == Data(line) = Body(fs[line[1].frame])

\* lines 98-123 for a parsed frame
ApplyFrame(cl, parsed) ==
  CASE parsed.type = "sessionId" ->
         IF parsed.sessionId # NoSession /\ cl.submittedSessionId = NoSession
         THEN [cl EXCEPT !.sessionId = parsed.sessionId] ELSE cl
    [] parsed.type = "metadata" ->
         [cl EXCEPT !.activeGuidelines = parsed.activeGuidelines,
                    !.guidelineMatchingResults = parsed.guidelineMatchingResults]
    [] parsed.type = "content" ->
         IF Len(parsed.content) > 0 /\ cl.message.shown
         THEN [cl EXCEPT !.message.content = @ \o parsed.content] ELSE cl
    [] OTHER -> cl

\* the body of the loop over the lines of a chunk
ApplyLine(fs, cl, line) ==
  IF ~StartsWithPrefix(line) THEN cl
  ELSE IF Data(line) = <<"[DONE]">> THEN cl
  ELSE IF Parses(fs, line) THEN ApplyFrame(cl, fs[line[1].frame])
  ELSE cl

RECURSIVE ApplyLines(_, _, _)
ApplyLines(fs, cl, lines) ==
  IF Len(lines) = 0 THEN cl
  ELSE ApplyLines(fs, ApplyLine(fs, cl, Head(lines)), Tail(lines))

\* the streams of completed turns the dashboard may be sent
ClientStreams(sid) ==
  {<<SessionFrame(sid)>> \o [i \in 1..Len(texts) |-> ContentFrame(texts[i])]
     \o <<FinalData(results, FilterActive(candidates, results)), DoneFrame>> :
     texts \in {<<>>, << <<"a">> >>, << <<"a">>, <<"b">> >>},
     candidates \in match_guidelines(SeededTable, Embed(2), MatchThreshold, MatchCount),
     results \in {<<>>, <<[guideline_id |-> 2, applies |-> JsonTrue, score |-> 9]>>}}

\* the dashboard in its first turn, or in a later turn of session 1; the
\* stream is that of the turn the message will start
InitClient ==
  /\ guidelines = SeededTable
  /\ admin = IdleAdmin
  /\ sessions = [s \in {1} |-> {1}]
  /\ turns = 0
  /\ pc = "idle"
  /\ reqSid = NoSession
  /\ sessionId = NoSession
  /\ query = Null
  /\ rpcData = [isNull |-> TRUE, rows |-> <<>>]
  /\ classifier = NotCalled
  /\ matchingResults = <<>>
  /\ activeGuidelines = <<>>
  /\ dynamicActions = NoPrompt
  /\ draft = <<>>
  /\ correctionStream = NoStream
  /\ pulled = <<>>
  /\ streamState = "none"
  /\ response = "none"
  /\ failures = {}
  /\ rpcArgs = NoCall
  /\ writes = <<>>
  /\ correctionPrompt = NoPrompt
  /\ stages = <<>>
  /\ sessionsBefore = sessions
  /\ everActive = [s \in SessionIds |-> {}]
  /\ \E sid \in {NoSession, 1} :
       /\ client = [IdleClient EXCEPT !.sessionId = sid]
       /\ frames \in ClientStreams(IF sid = NoSession THEN 2 ELSE sid)

\* what the dashboard leaves alone
serverVars == <<guidelines, admin, sessions, turns, pc, reqSid, sessionId, query,
                rpcData, classifier, matchingResults, activeGuidelines,
                dynamicActions, draft, correctionStream, pulled, frames,
                streamState, response, failures, everActive, rpcArgs,
                sessionsBefore, writes, correctionPrompt, stages>>

\* handleSubmitChat up to the reader loop: the request carries the session
\* id of this render, the assistant message is added, the response arrives
SubmitChat ==
  /\ client.reader = "idle"
  /\ client' = [client EXCEPT !.reader = "reading",
                              !.wire = Bytes(frames),
                              !.submittedSessionId = client.sessionId,
                              !.message = [shown |-> TRUE, content |-> <<>>],
                              !.reset = FALSE]
  /\ UNCHANGED serverVars

\* reader.read() returns the next n bytes; the loop over their lines
ReadChunk ==
  /\ client.reader = "reading"
  /\ \E n \in 1..Len(client.wire) :
       client' = [ApplyLines(frames, client, SplitLines(SubSeq(client.wire, 1, n), <<>>))
                    EXCEPT !.wire = SubSeq(client.wire, n + 1, Len(client.wire))]
  /\ UNCHANGED serverVars

\* reader.read() returns done
ReadDone ==
  /\ client.reader = "reading"
  /\ Len(client.wire) = 0
  /\ client' = [client EXCEPT !.reader = "ended"]
  /\ UNCHANGED serverVars

\* handleResetSession, from the Reset button, which is never disabled
ResetSession ==
  /\ client.reader \in {"reading", "ended"}
  /\ client' = [client EXCEPT !.message = [shown |-> FALSE, content |-> <<>>],
                              !.activeGuidelines = <<>>,
                              !.accomplishedGuidelines = <<>>,
                              !.guidelineMatchingResults = <<>>,
                              !.sessionId = NoSession,
                              !.reset = TRUE]
  /\ UNCHANGED serverVars

NextClient ==
  \/ SubmitChat
  \/ ReadChunk
  \/ ReadDone
  \/ ResetSession

SpecClient == InitClient /\ [][NextClient]_vars

\* ================================================================ claims
Range(seq) == {seq[i] : i \in 1..Len(seq)}
\* the retrieval of the current turn has answered and the turn is under way
AfterRetrieval == pc \in {"classify", "generate", "supervise", "streaming"}
CandidateIds == IdsOf(OrEmpty(rpcData))
ContentTexts(fs) ==
  [i \in 1..Len(SelectSeq(fs, LAMBDA f : f.type = "content")) |->
     SelectSeq(fs, LAMBDA f : f.type = "content")[i].content]
NonEmptyTexts(texts) == SelectSeq(texts, LAMBDA t : Len(t) > 0)
CountFrames(fs, type) == Len(SelectSeq(fs, LAMBDA f : f.type = type))
\* the row inserted last: rows are numbered in insertion order
NewestSession == Cardinality(DOMAIN sessions)

\* C1: a guideline that was active in a completed turn of a session is not
\* among the candidates retrieved (and so not active) in a later turn of
\* that session.
C1_AccomplishedNeverRetrievedAgain ==
  (AfterRetrieval /\ sessionId \in DOMAIN sessions) =>
    /\ CandidateIds \cap everActive[sessionId] = {}
    /\ IdsOf(activeGuidelines) \cap everActive[sessionId] = {}

\* C2: no step of the chat pipeline removes a session row or an id from the
\* accomplished set stored for a session: the set after any step contains the
\* set before it.
C2_StoredSetNeverShrinks ==
  [][\A s \in DOMAIN sessions : s \in DOMAIN sessions' /\ sessions[s] \subseteq sessions'[s]]_vars

\* a turn on a session with a stored accomplished id has completed, another
\* session having been created on the way
C2_Witness ==
  /\ pc = "done"
  /\ sessionId \in DOMAIN sessions
  /\ sessions[sessionId] # {}
  /\ Cardinality(DOMAIN sessions) > 1

\* C3: no candidate a turn retrieves has an id in the accomplished set
\* stored for the turn's session.
C3_NoCandidateIsAccomplished ==
  (AfterRetrieval /\ sessionId \in DOMAIN sessions) =>
    CandidateIds \cap sessions[sessionId] = {}

\* C4: a response stream starts with the sessionId frame, no later frame is
\* a sessionId frame, and the frame carries the supplied session id, or the
\* id of the row the turn created when none was supplied.
C4_SessionFrameFirst ==
  /\ response = "stream" => Len(frames) > 0
  /\ Len(frames) > 0 =>
       /\ frames[1].type = "sessionId"
       /\ \A i \in 2..Len(frames) : frames[i].type # "sessionId"
       /\ frames[1].sessionId = IF reqSid # NoSession THEN reqSid ELSE NewestSession

\* a completed stream of a turn that created its session
C4_Witness ==
  /\ pc = "done"
  /\ reqSid = NoSession
  /\ CountFrames(frames, "content") > 0
  /\ frames[1].sessionId = NewestSession

\* C5: a response stream the client has not cancelled ends, also when the
\* supervisor's stream throws, with exactly one metadata frame, after every
\* content frame, followed by the [DONE] sentinel and the close.
C5_OneMetadataFrameBeforeDone ==
  (pc \in {"done", "errored"} /\ streamState # "cancelled") =>
    /\ streamState = "closed"
    /\ CountFrames(frames, "metadata") = 1
    /\ Len(frames) >= 3
    /\ frames[Len(frames) - 1].type = "metadata"
    /\ frames[Len(frames)].type = "done"

C7_SupervisionFailureYieldsDraft ==
  /\ (pc = "done" /\ "supervisor" \in failures) => ContentOf(frames) = draft
  /\ (pc = "errored" /\ streamState = "errored") => ContentOf(frames) = draft

FaultyShape(c) ==
  \/ c.call = "throws"
  \/ c.call = "ok" /\ c.t \in {"invalid", "null", "scalar"}
  \/ c.call = "ok" /\ c.t = "object" /\ c.first # "array"

\* C8: whatever the classifier call produces, guidelineMatching does not
\* throw (an error response is always due to the request, the session insert,
\* the embedding or the generation); after a faulty outcome the results and
\* the active set are empty, the prompt is the fallback instruction, and a
\* completed turn has streamed the draft.
C8_ClassifierFaultsFailSafe ==
  /\ response = "error500" =>
       failures \cap {"request", "insert", "embedding", "generation"} # {}
  /\ FaultyShape(classifier) =>
       /\ matchingResults = <<>>
       /\ activeGuidelines = <<>>
       /\ dynamicActions.kind = "fallback"
       /\ pc = "done" => ContentOf(frames) = draft

\* a turn whose classifier answered JSON null has completed with a reply
C8_Witness ==
  /\ pc = "done"
  /\ classifier.call = "ok"
  /\ classifier.t = "null"
  /\ Len(OrEmpty(rpcData)) > 0
  /\ ContentOf(frames) = <<"a", "b">>

\* C9: after the retrieval call failed the turn goes no further than the
\* error: it does not generate or stream.
C9_RetrievalFailureStopsTheTurn ==
  "retrieval" \in failures =>
    /\ pc \in {"classify", "failed"}
    /\ response # "stream"

\* C10: when the embedding call or the generation call failed, the turn has
\* ended with the error response and no stream exists: no frame was emitted.
C10_EmbeddingOrGenerationFailureAborts ==
  failures \cap {"embedding", "generation"} # {} =>
    /\ pc = "failed"
    /\ response = "error500"
    /\ frames = <<>>
    /\ streamState = "none"

\* the generation failed after guidelines had been found active
C10_Witness ==
  /\ "generation" \in failures
  /\ Len(activeGuidelines) > 0
  /\ response = "error500"

\* C11: a turn that was called with a session id naming no row and has
\* returned its stream runs under, and echoes in its sessionId frame, the id
\* of a session row, which is not the unknown id.
C11_UnknownSessionIdCreatesSession ==
  (reqSid # NoSession /\ ~(reqSid \in DOMAIN sessionsBefore) /\ response = "stream") =>
    /\ sessionId \in DOMAIN sessions
    /\ sessionId # reqSid
    /\ frames[1].sessionId = sessionId

\* C12: of any two rows a call of either SQL function returns, the one with
\* the higher priority comes first whatever the similarities, and of two
\* rows of equal priority the one with the higher similarity comes first.
C12_PriorityThenSimilarity ==
  pc = "sql" =>
    \A i, j \in 1..Len(rpcData.rows) :
      /\ rpcData.rows[i].priority > rpcData.rows[j].priority => i < j
      /\ (/\ rpcData.rows[i].priority = rpcData.rows[j].priority
          /\ rpcData.rows[i].similarity > rpcData.rows[j].similarity) => i < j

\* a row of priority 10 and similarity 0.7 is returned before two rows of
\* priority 0, of which the one of similarity 1.0 comes first
C12_Witness ==
  /\ pc = "sql"
  /\ Len(rpcData.rows) = 3
  /\ rpcData.rows[1].priority = 10 /\ rpcData.rows[1].similarity = 70
  /\ rpcData.rows[2].priority = 0 /\ rpcData.rows[2].similarity = 100
  /\ rpcData.rows[3].priority = 0 /\ rpcData.rows[3].similarity = 40

\* the guidelines eligible for the call made last when the threshold is
\* inclusive
EligibleAtOrAbove ==
  {id \in DOMAIN guidelines :
     /\ guidelines[id].embedding # Null
     /\ Similarity(guidelines[id].embedding, query) >= rpcArgs.match_threshold
     /\ ~(id \in rpcArgs.conversation_state)}

\* C13: a call of either SQL function returns at most match_count rows; they
\* are the first match_count, in the function's order, of the guidelines
\* that have an embedding and a similarity of at least match_threshold (and,
\* for the stateful function, are not in the conversation state).
C13_FirstEligibleUpToCount ==
  pc = "sql" =>
    /\ Len(rpcData.rows) = Min(rpcArgs.match_count, Cardinality(EligibleAtOrAbove))
    /\ Cardinality(IdsOf(rpcData.rows)) = Len(rpcData.rows)
    /\ IdsOf(rpcData.rows) \subseteq EligibleAtOrAbove
    /\ \A a \in IdsOf(rpcData.rows), b \in EligibleAtOrAbove \ IdsOf(rpcData.rows) :
         OrderedBefore(guidelines, query, a, b)

\* systemPrompt has been assembled (it is sent to the generator next)
PromptAssembled ==
  \/ pc \in {"generate", "supervise", "streaming", "done", "errored", "aborted"}
  \/ "generation" \in failures

\* C14: once the prompt of a turn is assembled its instruction section is
\* present and not empty: it is the fallback instruction when no guideline is
\* active (no candidate, no result that applies, or a failed classifier) and
\* one line per active guideline otherwise.
C14_FallbackForEmptyActiveSet ==
  PromptAssembled =>
    /\ dynamicActions.kind \in {"instructions", "fallback"}
    /\ Len(activeGuidelines) = 0 => dynamicActions.kind = "fallback"
    /\ dynamicActions.kind = "instructions" =>
         /\ Len(dynamicActions.actions) > 0
         /\ Len(dynamicActions.actions) = Len(activeGuidelines)

\* a completed turn in which the classifier answered for a candidate, no
\* result applied and the prompt held the fallback instruction
C14_Witness ==
  /\ pc = "done"
  /\ Len(OrEmpty(rpcData)) > 0
  /\ Len(matchingResults) > 0
  /\ \E i \in 1..Len(matchingResults) : matchingResults[i].guideline_id \in CandidateIds
  /\ activeGuidelines = <<>>
  /\ dynamicActions.kind = "fallback"

\* C15: a turn that has streamed its reply to completion has made exactly
\* one database write, the update of the session's accomplished set, and
\* made it when every increment of the final text had been produced.
C15_StateWrittenOnceAfterStreaming ==
  pc = "done" =>
    /\ Len(writes) = 1
    /\ writes[1].op = "update"
    /\ writes[1].produced = Len(pulled)

\* the accomplished set of the turn's session when the turn began (empty for
\* a session the turn created)
OldAccomplished ==
  IF sessionId \in DOMAIN sessionsBefore THEN sessionsBefore[sessionId] ELSE {}

\* C16: after a completed turn the accomplished set stored for the session
\* is the set stored before the turn united with the ids of the guidelines
\* active in the turn.
C16_StateIsUnionWithActive ==
  (pc = "done" /\ sessionId \in DOMAIN sessions) =>
    sessions[sessionId] = OldAccomplished \cup IdsOf(activeGuidelines)

\* C17: once the client has cancelled the response stream while the
\* final-text stream was being read (an increment had been read), the loop
\* reads no further increment from it, and the state of every session stays
\* what it was before the turn.
C17_CancelStopsPulling ==
  [][(streamState = "cancelled" /\ pc = "streaming" /\ Len(pulled) > 0) =>
       /\ pulled' = pulled
       /\ \A s \in DOMAIN sessionsBefore : sessions'[s] = sessionsBefore[s]]_vars

\* C18: a turn that has ended with the error response has left the database
\* as it was before the turn: it has made no write, and conversation_sessions
\* holds the rows and states it held.
C18_FailedTurnLeavesNoTrace ==
  pc = "failed" =>
    /\ writes = <<>>
    /\ sessions = sessionsBefore

\* C19: the metadata frame of a completed turn carries activeGuidelines,
\* guidelineMatchingResults and accomplishedGuidelines, the last being the
\* accomplished set of the turn's session.
C19_MetadataCarriesAccomplished ==
  pc = "done" =>
    /\ frames[Len(frames) - 1].type = "metadata"
    /\ {"activeGuidelines", "guidelineMatchingResults", "accomplishedGuidelines"}
         \subseteq DOMAIN frames[Len(frames) - 1]
    /\ sessionId \in DOMAIN sessions =>
         frames[Len(frames) - 1].accomplishedGuidelines = sessions[sessionId]

\* results without what is diagnostic in them
WithoutDiagnostics(results) ==
  [i \in 1..Len(results) |-> [results[i] EXCEPT !.score = 0, !.reason = ""]]

\* some result names the guideline and has applies true
Applies(results, id) ==
  \E i \in 1..Len(results) :
    results[i].guideline_id = id /\ results[i].applies = JsonTrue

\* C20: the active guidelines are the candidates, in their order, for which
\* some result has the candidate's id and applies true (the boolean); score
\* and reason do not matter, a result that names no candidate adds nothing,
\* and every active guideline is a candidate.
C20_AppliesTrueIsTheSoleGate ==
  pc = "filtered" =>
    /\ IdsOf(activeGuidelines) =
         {id \in IdsOf(OrEmpty(rpcData)) : Applies(matchingResults, id)}
    /\ activeGuidelines =
         SelectSeq(OrEmpty(rpcData), LAMBDA g : g.id \in IdsOf(activeGuidelines))
    /\ activeGuidelines = FilterActive(OrEmpty(rpcData), WithoutDiagnostics(matchingResults))

\* of two candidates the one whose result has applies true and score 1 is
\* active, the one whose result has the string "true" and score 9 is not
C20_Witness ==
  /\ pc = "filtered"
  /\ Len(OrEmpty(rpcData)) = 2
  /\ Len(matchingResults) = 2
  /\ matchingResults[1].applies = "\"true\"" /\ matchingResults[1].score = 9
  /\ matchingResults[1].guideline_id = rpcData.rows[1].id
  /\ matchingResults[2].applies = JsonTrue /\ matchingResults[2].score = 1
  /\ matchingResults[2].guideline_id = rpcData.rows[2].id
  /\ IdsOf(activeGuidelines) = {rpcData.rows[2].id}

\* the actions of a list of guidelines, in the order of the list
ActionsOf(gs) == [i \in 1..Len(gs) |-> gs[i].action]

\* C21: the actions rendered into the generation prompt, the actions given
\* to the supervisor when it is called and the activeGuidelines of the
\* metadata frame are those of one list, the candidates of the turn for which
\* a result has applies true.
C21_OneActiveSet ==
  /\ PromptAssembled =>
       /\ IdsOf(activeGuidelines) = {id \in CandidateIds : Applies(matchingResults, id)}
       /\ dynamicActions.actions = ActionsOf(activeGuidelines)
  /\ correctionPrompt # NoPrompt => correctionPrompt.actions = ActionsOf(activeGuidelines)
  /\ pc = "done" => frames[Len(frames) - 1].activeGuidelines = activeGuidelines

\* a completed, supervised turn with two active guidelines
C21_Witness ==
  /\ pc = "done"
  /\ Len(activeGuidelines) = 2
  /\ correctionStream.kind = "openai"
  /\ Len(correctionPrompt.actions) = 2
  /\ Len(frames[Len(frames) - 1].activeGuidelines) = 2

\* where an action stands in a list of instructions
Position(actions, x) == CHOOSE i \in 1..Len(actions) : actions[i] = x

\* the actions of the active guidelines, each once, with the action of a
\* guideline of higher priority before that of one of lower priority
InPriorityOrder(actions) ==
  /\ Len(actions) = Len(activeGuidelines)
  /\ \A i \in 1..Len(activeGuidelines) :
       \E k \in 1..Len(actions) : actions[k] = activeGuidelines[i].action
  /\ \A i, j \in 1..Len(activeGuidelines) :
       activeGuidelines[i].priority > activeGuidelines[j].priority =>
         Position(actions, activeGuidelines[i].action)
           < Position(actions, activeGuidelines[j].action)

\* C22: the generation prompt and the supervisor prompt list one action per
\* active guideline, none dropped, and the action of a guideline of higher
\* priority before the action of one of lower priority.
C22_PromptsInRetrieverOrder ==
  /\ (PromptAssembled /\ Len(activeGuidelines) > 0) => InPriorityOrder(dynamicActions.actions)
  /\ correctionPrompt # NoPrompt => InPriorityOrder(correctionPrompt.actions)

\* both prompts of a supervised turn list the action of the guideline of
\* priority 10 before that of the guideline of priority 0
C22_Witness ==
  /\ pc = "done"
  /\ Len(activeGuidelines) = 2
  /\ activeGuidelines[1].priority > activeGuidelines[2].priority
  /\ dynamicActions.actions = <<activeGuidelines[1].action, activeGuidelines[2].action>>
  /\ correctionPrompt.actions = dynamicActions.actions

\* C23: with no active guideline the supervising call is not made, and the
\* content of a completed turn is the draft: for an empty draft there is no
\* content frame, and the metadata frame and [DONE] follow the sessionId frame.
C23_EmptyActiveSetSkipsSupervision ==
  (Len(activeGuidelines) = 0 /\ "supervision" \in Range(stages)) =>
    /\ correctionPrompt = NoPrompt
    /\ correctionStream.kind = "generator"
    /\ failures \cap {"supervisor", "supervisorStream"} = {}
    /\ pc = "done" =>
         /\ ContentOf(frames) = draft
         /\ draft = <<>> =>
              /\ CountFrames(frames, "content") = 0
              /\ Len(frames) = 3
              /\ frames[2].type = "metadata"
              /\ frames[3].type = "done"

\* a completed turn with candidates, none of them active, and an empty draft
C23_Witness ==
  /\ pc = "done"
  /\ Len(OrEmpty(rpcData)) > 0
  /\ Len(activeGuidelines) = 0
  /\ draft = <<>>
  /\ Len(frames) = 3

\* C24: when the retrieval answered with no row, or with no data, the
\* classifier is not called in the turn and the matching results are empty.
C24_NoCandidatesNoClassifierCall ==
  ("classification" \in Range(stages) /\ Len(OrEmpty(rpcData)) = 0) =>
    /\ classifier.call = "none"
    /\ matchingResults = <<>>

\* a completed turn whose retrieval returned an empty list of rows
C24_Witness ==
  /\ pc = "done"
  /\ ~rpcData.isNull
  /\ rpcData.rows = <<>>
  /\ classifier = NotCalled

\* the stages of a turn, in the order of the handler
Pipeline == <<"embedding", "retrieval", "classification", "generation", "supervision">>

\* C25: the stages a turn has run are an initial part of embedding,
\* retrieval, classification, generation, supervision, each run once; the
\* supervising call is issued, and a frame emitted, only after generation.
C25_StagesInOrder ==
  /\ Len(stages) <= Len(Pipeline)
  /\ \A i \in 1..Len(stages) : stages[i] = Pipeline[i]
  /\ correctionPrompt # NoPrompt =>
       /\ Len(stages) = Len(Pipeline)
       /\ "generation" \notin failures
  /\ frames # <<>> =>
       /\ "generation" \in Range(stages)
       /\ "generation" \notin failures

\* a completed, supervised turn has run the five stages
C25_Witness ==
  /\ pc = "done"
  /\ stages = Pipeline
  /\ correctionStream.kind = "openai"
  /\ CountFrames(frames, "content") > 0

\* C26: a turn whose request carries a session id inserts no session row; a
\* turn whose request carries none inserts exactly one, with an empty state,
\* and runs under its id; when the insert returns no data the turn ends with
\* the error response, no row added and no stage run.
C26_RowCreatedIffNoSessionId ==
  /\ reqSid # NoSession => (writes = <<>> /\ sessions = sessionsBefore)
  /\ (reqSid = NoSession /\ Len(stages) > 0) =>
       /\ Len(writes) = 1
       /\ writes[1].op = "insert"
       /\ writes[1].id = sessionId
       /\ ~(sessionId \in DOMAIN sessionsBefore)
       /\ sessions = InsertSession(sessionsBefore, sessionId)
  /\ "insert" \in failures =>
       /\ pc = "failed"
       /\ response = "error500"
       /\ stages = <<>>
       /\ sessions = sessionsBefore

\* after a turn that created a row, a turn whose insert returned no data has
\* failed
C26_Witness ==
  /\ "insert" \in failures
  /\ pc = "failed"
  /\ Cardinality(DOMAIN sessions) = 2

\* C27: a step that changes the condition of a guideline (a successful PUT)
\* leaves the guideline with the embedding of its new condition.
C27_UpdateStoresNewEmbedding ==
  [][\A id \in DOMAIN guidelines :
       guidelines'[id].condition # guidelines[id].condition =>
         guidelines'[id].embedding = Embed(guidelines'[id].condition)]_vars

\* C28: whatever PUT and regenerate-embeddings requests interleave, a
\* guideline that has an embedding has the embedding of its current condition.
C28_EmbeddingOfCurrentCondition ==
  \A id \in DOMAIN guidelines :
    guidelines[id].embedding # Null =>
      guidelines[id].embedding = Embed(guidelines[id].condition)

\* C29: however the bytes of the response were divided into reads, the
\* assistant message shown when the stream has ended (and Reset was not
\* pressed) is the concatenation of the contents of the content frames.
C29_MessageIsAllContent ==
  (client.reader = "ended" /\ ~client.reset) =>
    client.message.content = ContentOf(frames)

\* C30: after Reset and until the next message is submitted, the session
\* id, the active guidelines, the matching results and the accomplished
\* guidelines of the dashboard are empty, also while the turn in flight at
\* the reset is still read.
C30_ResetStaysEmpty ==
  client.reset =>
    /\ client.sessionId = NoSession
    /\ client.activeGuidelines = <<>>
    /\ client.guidelineMatchingResults = <<>>
    /\ client.accomplishedGuidelines = <<>>

====
